---- MODULE Spec2Model ----
(***************************************************************************)
(* PicLUT: .cube LUT parsing, the single-image LUT pipeline and the batch  *)
(* worker (src/lut_processing.py), with the window code that selects the   *)
(* banding-mitigation mode (src/PicLUT.py).                                *)
(*                                                                         *)
(* Three specifications share the module:                                  *)
(*   SpecBatch  BatchProcessingThread.run over a list of paths             *)
(*   SpecParse  parse_cube_lut scanning a file line by line                *)
(*   SpecPipe   apply_lut_to_image run stage by stage from the window      *)
(***************************************************************************)
EXTENDS Integers, Sequences, FiniteSets, TLC

\* ------------------------------------------------------------------ bounds
MaxPaths == 4
MaxLines == 9

\* ------------------------------------------------------- the file system
\* Image files the decoder can be pointed at, and what cv2.imdecode makes
\* of each: a 3-channel image, a 4-channel image, a single-channel image,
\* or None.
Paths == {"in/a.png", "in/rgba.png", "in/bad.png", "in/gray.png", "alt/a.png"}

FileKind ==
    [p \in Paths |->
        CASE p = "in/a.png"    -> "bgr"
          [] p = "alt/a.png"   -> "bgr"
          [] p = "in/rgba.png" -> "bgra"
          [] p = "in/gray.png" -> "gray"
          [] OTHER             -> "undecodable"]

\* os.path.basename
Basename ==
    [p \in Paths |->
        CASE p = "in/a.png"    -> "a.png"
          [] p = "alt/a.png"   -> "a.png"
          [] p = "in/rgba.png" -> "rgba.png"
          [] p = "in/gray.png" -> "gray.png"
          [] OTHER             -> "bad.png"]

Luts == {"lutA", "lutB"}

\* The slider value (percent); strength = value / 100.0
Strengths == {0, 50, 100}

\* The data values of the banding combo box (None is "none").
DitheringModes == {"none", "ordered", "noise", "floyd"}

\* Python truthiness of the value passed as `debanding`.
Truthy(mode) == mode # "none"

\* ---------------------------------------------------------------- images
\* An image is the source it was decoded from, its channel count and the
\* transforms applied to it so far, in order.
None == [src |-> "", ch |-> 0, ops |-> <<>>]

\* One applied transform: its name, the LUT it used (if any) and its
\* numeric parameter (strength in percent, intensity, kernel size).
Op(name, lut, k) == [op |-> name, lut |-> lut, k |-> k]

\* cv2.imdecode(data, cv2.IMREAD_UNCHANGED)
imdecode(p) ==
    CASE FileKind[p] = "bgr"  -> [src |-> p, ch |-> 3, ops |-> <<>>]
      [] FileKind[p] = "bgra" -> [src |-> p, ch |-> 4, ops |-> <<>>]
      [] FileKind[p] = "gray" -> [src |-> p, ch |-> 1, ops |-> <<>>]
      [] OTHER                -> None

\* cv2.cvtColor(image, cv2.COLOR_BGRA2BGR) when the image has 4 channels
RemoveAlpha(image) ==
    IF image.ch = 4 THEN [image EXCEPT !.ch = 3] ELSE image

\* ---------------------------------------------------- the pipeline stages
\* Steps 1-4: BGR -> RGB, Color3DLUT filter, back to BGR.
SampleLut(source_img, lut) ==
    [source_img EXCEPT !.ops = Append(@, Op("lut3d", lut, 0))]

\* Step 5: cv2.addWeighted(source, 1 - strength, result, strength, 0),
\* only when strength < 1.0.
BlendStrength(result_bgr, strength) ==
    IF strength < 100
    THEN [result_bgr EXCEPT !.ops = Append(@, Op("addWeighted", "", strength))]
    ELSE result_bgr

\* Step 6 left out.
DitherStage_Off(result_bgr, debanding) == result_bgr

\* Step 6: blue-noise dither, intensity 2.0, when `debanding` is truthy.
DitherStage(result_bgr, debanding) ==
    IF Truthy(debanding)
    THEN [result_bgr EXCEPT !.ops = Append(@, Op("blue_noise_dither", "", 2))]
    ELSE result_bgr

\* No fallback: without cv2.ximgproc no image comes back.
apply_edge_preserving_debanding_NoFallback(image, ximgproc) ==
    IF ximgproc
    THEN [image EXCEPT !.ops = Append(@, Op("dtFilter", "", 30))]
    ELSE None

\* apply_edge_preserving_debanding: dtFilter, or bilateralFilter when
\* cv2.ximgproc is missing.
apply_edge_preserving_debanding(image, ximgproc) ==
    IF ximgproc
    THEN [image EXCEPT !.ops = Append(@, Op("dtFilter", "", 30))]
    ELSE [image EXCEPT !.ops = Append(@, Op("bilateralFilter", "", 9))]

\* The dither follows the smoothing.
DebandStage_ThenDither(result_bgr, debanding, ximgproc) ==
    IF Truthy(debanding)
    THEN DitherStage(apply_edge_preserving_debanding(result_bgr, ximgproc),
                     debanding)
    ELSE result_bgr

\* Step 7: debanding, when `debanding` is truthy.
DebandStage(result_bgr, debanding, ximgproc) ==
    IF Truthy(debanding)
    THEN apply_edge_preserving_debanding(result_bgr, ximgproc)
    ELSE result_bgr

\* cv2.cvtColor(source_img, cv2.COLOR_BGR2RGB) needs a 3-channel image.
PipelineRaises(source_img) == source_img.ch # 3

apply_lut_to_image(source_img, lut, strength, debanding, ximgproc) ==
    DebandStage(
        DitherStage(
            BlendStrength(SampleLut(source_img, lut), strength),
            debanding),
        debanding, ximgproc)

\* ===================================================================
\* Pixels: the same stages computed on 8-bit values
\* ===================================================================
\* Edge of the noise tile (256 in the code) and the number of times one
\* call of apply_lut_to_image is repeated with the same arguments.
TexSize == 2
MaxRuns == 2

\* _generate_blue_noise_texture(size=256, seed=42)
Seed == 42

PixelValues == {0, 1, 128, 254, 255}
Dims == 1..(TexSize + 1)
PixelStrengths == {0, 30, 50, 100}

\* A numeric image: height, width, channels and the uint8 values in
\* row-major order, channel last: px[(y * w + x) * c + k + 1].
NoPx == [h |-> 0, w |-> 0, c |-> 0, px |-> <<>>]

\* A 3-channel image whose values alternate between v1 and v2.
MakeImage(h, w, v1, v2) ==
    [h |-> h, w |-> w, c |-> 3,
     px |-> [i \in 1..(h * w * 3) |-> IF i % 2 = 1 THEN v1 ELSE v2]]

PxImages ==
    {MakeImage(h, w, v1, v2) : h \in Dims, w \in Dims,
                               v1 \in PixelValues, v2 \in PixelValues}

\* Steps 1 and 4: cv2.cvtColor BGR <-> RGB reverses the channels of every
\* pixel.
cvtColor(image) ==
    [image EXCEPT !.px =
        [i \in DOMAIN image.px |->
            image.px[((i - 1) \div 3) * 3 + (2 - ((i - 1) % 3)) + 1]]]

\* Steps 2-3: ImageFilter.Color3DLUT on an RGB image. lutA is the identity
\* table; lutB inverts the red channel and keeps green and blue.
Color3DLUT(image, lut) ==
    [image EXCEPT !.px =
        [i \in DOMAIN image.px |->
            IF lut = "lutB" /\ (i - 1) % 3 = 0
            THEN 255 - image.px[i]
            ELSE image.px[i]]]

\* Steps 1-4 of apply_lut_to_image.
SamplePx(source_img, lut) == cvtColor(Color3DLUT(cvtColor(source_img), lut))

\* cvRound: to the nearest integer, ties to even.
cvRound(num, den) ==
    LET q == num \div den
        r == num % den
    IN  IF 2 * r < den THEN q
        ELSE IF 2 * r > den THEN q + 1
        ELSE IF q % 2 = 0 THEN q ELSE q + 1

\* saturate_cast<uchar>
saturate_cast(v) == IF v < 0 THEN 0 ELSE IF v > 255 THEN 255 ELSE v

\* The weights exchanged.
addWeighted_Swapped(src1, alpha, src2, beta) ==
    saturate_cast(cvRound(src1 * beta + src2 * alpha, 100))

\* The weighted sum cut off instead of rounded.
addWeighted_Truncated(src1, alpha, src2, beta) ==
    saturate_cast((src1 * alpha + src2 * beta) \div 100)

\* cv2.addWeighted(src1, alpha, src2, beta, 0) on one channel value; the
\* weights are in percent.
addWeighted(src1, alpha, src2, beta) ==
    saturate_cast(cvRound(src1 * alpha + src2 * beta, 100))

\* Step 5.
BlendPx(source_img, result, strength) ==
    IF strength < 100
    THEN [result EXCEPT !.px =
            [i \in DOMAIN result.px |->
                addWeighted(source_img.px[i], 100 - strength,
                            result.px[i], strength)]]
    ELSE result

SetMin(S) == CHOOSE x \in S : \A y \in S : x <= y
SetMax(S) == CHOOSE x \in S : \A y \in S : y <= x

\* _generate_blue_noise_texture: a size x size tile that is a function of
\* (size, seed) only (np.random.seed(seed) precedes every draw), scaled so
\* that its least value is -0.5 and its greatest 0.5. Values are in tenths.
generate_blue_noise_texture(size, seed) ==
    LET raw == [i \in 1..(size * size) |-> (seed * i * i + i) % 11]
        lo  == SetMin({raw[i] : i \in 1..(size * size)})
        hi  == SetMax({raw[i] : i \in 1..(size * size)})
    IN  [i \in 1..(size * size) |-> ((raw[i] - lo) * 10) \div (hi - lo) - 5]

\* The tile count without the extra tile.
TileReps_Floor(n, t) == n \div t

\* np.tile repetitions along one axis: n // texture_size + 1
TileReps(n, t) == n \div t + 1

\* Length of one axis of np.tile(...)[:n]
CropLen(n, t) == IF t * TileReps(n, t) < n THEN t * TileReps(n, t) ELSE n

\* np.clip(v, 0, 255).astype(np.uint8) of a value given in tenths: the
\* conversion drops the fraction.
clip_astype_uint8(v10) ==
    (IF v10 < 0 THEN 0 ELSE IF v10 > 2550 THEN 2550 ELSE v10) \div 10

\* _apply_blue_noise_dither(image, intensity) reading the tile `texture`.
\* Adding a dither map whose shape differs from the image's raises.
apply_blue_noise_dither(image, intensity, texture, size) ==
    IF CropLen(image.h, size) # image.h \/ CropLen(image.w, size) # image.w
    THEN NoPx
    ELSE [image EXCEPT !.px =
            [i \in DOMAIN image.px |->
                LET q == (i - 1) \div image.c
                    y == q \div image.w
                    x == q % image.w
                IN  clip_astype_uint8(
                        image.px[i] * 10
                        + texture[(y % size) * size + (x % size) + 1] * intensity)]]

\* The tile is regenerated by every call, from a seed that moves on.
TextureAfterDither_Regenerated(texture, n) ==
    generate_blue_noise_texture(TexSize, Seed + n)

\* _BLUE_NOISE_TEXTURE after the n-th call of _apply_blue_noise_dither: the
\* function only reads it (np.tile copies).
TextureAfterDither(texture, n) == texture

RECURSIVE SumOver(_, _)
SumOver(S, f) ==
    IF S = {} THEN 0
    ELSE LET e == CHOOSE e \in S : TRUE IN f[e] + SumOver(S \ {e}, f)

Abs(v) == IF v < 0 THEN -v ELSE v

\* The smoothing of cv2.ximgproc.dtFilter / cv2.bilateralFilter on one
\* channel: every value becomes the rounded mean of itself and of those of
\* its four neighbours that differ from it by less than sigmaColor.
EdgePreservingSmooth(image, sigmaColor) ==
    [image EXCEPT !.px =
        [i \in DOMAIN image.px |->
            LET q  == (i - 1) \div image.c
                y  == q \div image.w
                x  == q % image.w
                nb == {j \in DOMAIN image.px :
                          /\ ((j - 1) % image.c) = ((i - 1) % image.c)
                          /\ LET r == (j - 1) \div image.c IN
                                Abs((r \div image.w) - y) + Abs((r % image.w) - x) <= 1
                          /\ Abs(image.px[j] - image.px[i]) < sigmaColor}
            IN  cvRound(SumOver(nb, image.px), Cardinality(nb))]]

\* apply_edge_preserving_debanding on pixels: dtFilter (sigmaColor 30), or
\* bilateralFilter (sigmaColor 35) when cv2.ximgproc is missing.
DebandPx(image, has_ximgproc) ==
    IF has_ximgproc THEN EdgePreservingSmooth(image, 30)
    ELSE EdgePreservingSmooth(image, 35)

\* ===================================================================
\* State
\* ===================================================================
VARIABLES
    \* BatchProcessingThread: constructor arguments
    image_paths, b_lut, b_strength, b_debanding,
    \* BatchProcessingThread.run: locals and emitted signals
    b_pc, b_i, processed_images, os_bound,
    progress_update, b_finished, b_error,
    \* whether cv2.ximgproc is present in the runtime
    ximgproc,
    \* parse_cube_lut: locals lut_table and size, lines read so far, where
    \* the call stands and the error it raised
    p_pc, p_table, p_size, p_n, p_err,
    \* parse_cube_lut: what the lines read so far contained
    sawSize, dataBeforeSize, oddRow,
    \* LutAppWindow fields
    source_image, lut_table, lut_size, lut_strength, dithering_mode,
    processed_image, last_preview_strength,
    \* LutAppWindow.image_paths, loaded_images and batch_mode (the preview
    \* button is visible exactly in batch mode)
    win_image_paths, loaded_images, batch_mode,
    \* btn_preview.isEnabled(), btn_process.isEnabled()
    btn_preview_enabled, btn_process_enabled,
    \* the files written by on_batch_save, in order
    saved,
    \* how many inputs the user has made, and how many of them the log
    \* answered with the warning that the image or the LUT is not loaded
    clicks, warnings,
    \* the error messages logged by failed LUT loads, counted
    lut_errors,
    \* the window's worker_thread: where its run() stands, its constructor
    \* arguments and the local result_bgr of apply_lut_to_image
    w_pc, w_args, result_bgr,
    \* threads still running that worker_thread no longer refers to, and
    \* whether the process was aborted when such a thread was destroyed
    detached, crashed,
    \* signals emitted by worker threads and not yet delivered to a slot
    signals,
    \* for each value passed as `debanding`, the mitigation transforms that
    \* completed runs applied to the blended image
    ran,
    \* apply_lut_to_image on pixels: its arguments, where the call stands and
    \* its local result_bgr
    x_src, x_lut, x_strength, x_debanding, x_pc, x_img,
    \* the module global _BLUE_NOISE_TEXTURE
    blue_noise_texture,
    \* how many times the call was made with these arguments, and what the
    \* first call returned
    x_calls, x_first,
    \* two concurrent calls of apply_lut_to_image on the same source image
    \* and LUT: per worker, strength, mode, where the call stands and its
    \* local result_bgr
    s_strength, s_debanding, s_pc, s_img,
    \* the files and folders under the LUT directory, the window's
    \* pinned_luts, and every path os.remove or shutil.rmtree has removed
    lib_fs, pinned_luts, removed

batchVars == <<image_paths, b_lut, b_strength, b_debanding, b_pc, b_i,
               processed_images, os_bound, progress_update, b_finished,
               b_error>>

parseVars == <<p_pc, p_table, p_size, p_n, p_err, sawSize, dataBeforeSize,
               oddRow>>

windowVars == <<source_image, lut_table, lut_size, lut_strength,
                dithering_mode, processed_image, last_preview_strength,
                win_image_paths, loaded_images, batch_mode,
                btn_preview_enabled, btn_process_enabled, saved, clicks,
                warnings, lut_errors>>

workerVars == <<w_pc, w_args, result_bgr, signals, ran, detached, crashed>>

pixelVars == <<x_src, x_lut, x_strength, x_debanding, x_pc, x_img,
               blue_noise_texture, x_calls, x_first>>

shareVars == <<s_strength, s_debanding, s_pc, s_img>>

libVars == <<lib_fs, pinned_luts, removed>>

vars == <<batchVars, ximgproc, parseVars, windowVars, workerVars, pixelVars,
          shareVars, libVars>>

\* Everything the batch thread leaves alone.
notBatch == <<ximgproc, parseVars, windowVars, workerVars, pixelVars,
             shareVars, libVars>>

\* Everything parse_cube_lut leaves alone.
notParse == <<ximgproc, batchVars, windowVars, workerVars, pixelVars,
             shareVars, libVars>>

\* Everything the window and its worker thread leave alone.
notWindow == <<ximgproc, batchVars, parseVars, pixelVars, shareVars, libVars>>

\* Everything the calls on pixels leave alone.
notPixel == <<batchVars, parseVars, windowVars, workerVars, shareVars,
             libVars>>

\* The two threads that can work on the same image and LUT: the one
\* on_preview starts and the one on_process_start starts.
Workers == {"preview", "apply"}

\* No concurrent calls are under way.
ShareIdle ==
    /\ s_strength = [w \in Workers |-> 100]
    /\ s_debanding = [w \in Workers |-> "none"]
    /\ s_pc = [w \in Workers |-> "idle"]
    /\ s_img = [w \in Workers |-> NoPx]

\* A path is the sequence of its characters; os.sep.
Sep == "/"

\* _ensure_lut_dirs: os.path.join(dirname, "LUT") and
\* os.path.join(base_dir, "Custom"), written L and L/C.
lut_base_dir == <<"L">>
custom_lut_dir == lut_base_dir \o <<Sep, "C">>

\* The folders and .cube files under the LUT directory: the Custom
\* directory with a file and a subfolder, a folder beside it whose name
\* begins with its name (L/C2), a .cube file beside it whose name begins
\* with its name (L/Cx), and a folder of bundled LUTs (L/F).
LibFolders ==
    {custom_lut_dir,
     custom_lut_dir \o <<Sep, "s">>,
     lut_base_dir \o <<Sep, "C", "2">>,
     lut_base_dir \o <<Sep, "F">>}

LibFiles ==
    {custom_lut_dir \o <<Sep, "a">>,
     custom_lut_dir \o <<Sep, "s", Sep, "b">>,
     lut_base_dir \o <<Sep, "C", "2", Sep, "c">>,
     lut_base_dir \o <<Sep, "C", "x">>,
     lut_base_dir \o <<Sep, "F", Sep, "d">>}

\* The LUT directory as found at start-up, nothing pinned, nothing removed.
LibIdle ==
    /\ lib_fs = LibFolders \cup LibFiles
    /\ pinned_luts = {}
    /\ removed = {}

\* No call on pixels is under way; the module was imported, which generated
\* the noise tile.
PixelIdle ==
    /\ x_src = NoPx
    /\ x_lut = "lutA"
    /\ x_strength = 100
    /\ x_debanding = "none"
    /\ x_pc = "idle"
    /\ x_img = NoPx
    /\ blue_noise_texture = generate_blue_noise_texture(TexSize, Seed)
    /\ x_calls = 0
    /\ x_first = NoPx

\* last_preview_strength = None
NoStrength == -1

\* The constructor arguments of a worker thread and the slot its
\* processing_finished signal is connected to.
ImageThread(slot, source_img, lut, size, strength, debanding) ==
    [kind |-> "image", slot |-> slot, source_img |-> source_img,
     paths |-> <<>>, lut |-> lut, lut_size |-> size, strength |-> strength,
     debanding |-> debanding]

BatchThread(paths, lut, size, strength, debanding) ==
    [kind |-> "batch", slot |-> "on_batch_finished", source_img |-> None,
     paths |-> paths, lut |-> lut, lut_size |-> size, strength |-> strength,
     debanding |-> debanding]

NoArgs == ImageThread("", None, "", 0, 100, "none")

\* The window as constructed: nothing loaded, no worker thread.
WindowIdle ==
    /\ source_image = None
    /\ lut_table = ""
    /\ lut_size = 0
    /\ lut_strength = 100
    /\ dithering_mode = "none"
    /\ processed_image = None
    /\ last_preview_strength = NoStrength
    /\ win_image_paths = <<>>
    /\ loaded_images = <<>>
    /\ batch_mode = FALSE
    /\ btn_preview_enabled = TRUE
    /\ btn_process_enabled = TRUE
    /\ saved = <<>>
    /\ clicks = 0
    /\ warnings = 0
    /\ lut_errors = 0
    /\ w_pc = "none"
    /\ w_args = NoArgs
    /\ result_bgr = None
    /\ signals = <<>>
    /\ ran = [m \in DitheringModes |-> {}]
    /\ detached = <<>>
    /\ crashed = FALSE

\* No batch thread has been constructed.
BatchIdle ==
    /\ image_paths = <<>>
    /\ b_lut = "lutA"
    /\ b_strength = 100
    /\ b_debanding = "none"
    /\ b_pc = "idle"
    /\ b_i = 0
    /\ processed_images = <<>>
    /\ os_bound = FALSE
    /\ progress_update = <<>>
    /\ b_finished = <<>>
    /\ b_error = <<>>

\* parse_cube_lut has not been called.
ParseIdle ==
    /\ p_pc = "idle"
    /\ p_table = <<>>
    /\ p_size = 0
    /\ p_n = 0
    /\ p_err = ""
    /\ sawSize = FALSE
    /\ dataBeforeSize = FALSE
    /\ oddRow = FALSE

\* ===================================================================
\* BatchProcessingThread.run
\* ===================================================================
\* All sequences over S of length at most n.
RECURSIVE SeqsUpTo(_, _)
SeqsUpTo(S, n) ==
    IF n = 0 THEN {<<>>}
    ELSE LET shorter == SeqsUpTo(S, n - 1)
         IN  shorter \cup {Append(q, x) : q \in {r \in shorter : Len(r) = n - 1}, x \in S}

\* The body of the inner try for one path: TRUE when it raises.
\* np.fromfile + cv2.imdecode give None -> ValueError; otherwise the
\* pipeline may raise.
ItemRaises(img_path) ==
    \/ imdecode(img_path) = None
    \/ PipelineRaises(RemoveAlpha(imdecode(img_path)))

\* The image the inner try appends for a path that does not raise.
ItemResult(img_path, lut, strength, debanding, xp) ==
    apply_lut_to_image(RemoveAlpha(imdecode(img_path)), lut, strength, debanding, xp)

\* progress_update messages
DoneMsg(i, total, img_path) ==
    [kind |-> "done", i |-> i, total |-> total, filename |-> Basename[img_path]]
WarnMsg(img_path) ==
    [kind |-> "warn", i |-> 0, total |-> 0, filename |-> Basename[img_path]]

\* processing_error messages
AllFailedMsg == "all images failed"
BatchErrorMsg == "batch error: local variable 'os' referenced before assignment"

InitBatch ==
    /\ image_paths \in SeqsUpTo(Paths, MaxPaths)
    /\ b_lut \in Luts
    /\ b_strength \in {50, 100}
    /\ b_debanding \in {"none", "noise"}
    /\ ximgproc \in BOOLEAN
    /\ b_pc = "loop"
    /\ b_i = 0
    /\ processed_images = <<>>
    /\ os_bound = FALSE
    /\ progress_update = <<>>
    /\ b_finished = <<>>
    /\ b_error = <<>>
    /\ ParseIdle
    /\ WindowIdle
    /\ PixelIdle
    /\ ShareIdle
    /\ LibIdle

\* One iteration of the for loop whose inner try completes: the image is
\* appended, `import os` binds the local name os, progress is emitted.
BatchItemOk ==
    /\ b_pc = "loop"
    /\ b_i < Len(image_paths)
    /\ LET img_path == image_paths[b_i + 1] IN
        /\ ~ItemRaises(img_path)
        /\ processed_images' = Append(processed_images,
               ItemResult(img_path, b_lut, b_strength, b_debanding, ximgproc))
        /\ os_bound' = TRUE
        /\ progress_update' = Append(progress_update,
               DoneMsg(b_i + 1, Len(image_paths), img_path))
    /\ b_i' = b_i + 1
    /\ UNCHANGED <<image_paths, b_lut, b_strength, b_debanding, b_pc,
                   b_finished, b_error, notBatch>>

\* One iteration whose inner try raises, with os already bound: the
\* handler emits the warning and continues.
BatchItemWarn ==
    /\ b_pc = "loop"
    /\ b_i < Len(image_paths)
    /\ ItemRaises(image_paths[b_i + 1])
    /\ os_bound
    /\ progress_update' = Append(progress_update, WarnMsg(image_paths[b_i + 1]))
    /\ b_i' = b_i + 1
    /\ UNCHANGED <<image_paths, b_lut, b_strength, b_debanding, b_pc,
                   processed_images, os_bound, b_finished, b_error, notBatch>>

\* One iteration whose inner try raises before `import os` has ever run:
\* the handler's os.path.basename raises UnboundLocalError, which leaves
\* the loop and is caught by the outer handler.
BatchItemAbort ==
    /\ b_pc = "loop"
    /\ b_i < Len(image_paths)
    /\ ItemRaises(image_paths[b_i + 1])
    /\ ~os_bound
    /\ b_error' = Append(b_error, BatchErrorMsg)
    /\ b_i' = b_i + 1
    /\ b_pc' = "done"
    /\ UNCHANGED <<image_paths, b_lut, b_strength, b_debanding,
                   processed_images, os_bound, progress_update, b_finished, notBatch>>

\* BatchEmit with the success test written as "more than one image".
BatchEmit_OffByOne(images) ==
    IF Len(images) > 1
    THEN [finished |-> <<images>>, error |-> <<>>]
    ELSE [finished |-> <<>>, error |-> <<AllFailedMsg>>]

\* After the loop: the processing_finished payloads and processing_error
\* messages emitted for a given processed_images list.
BatchEmit(images) ==
    IF images # <<>>
    THEN [finished |-> <<images>>, error |-> <<>>]
    ELSE [finished |-> <<>>, error |-> <<AllFailedMsg>>]

BatchFinish ==
    /\ b_pc = "loop"
    /\ b_i = Len(image_paths)
    /\ b_finished' = b_finished \o BatchEmit(processed_images).finished
    /\ b_error' = b_error \o BatchEmit(processed_images).error
    /\ b_pc' = "done"
    /\ UNCHANGED <<image_paths, b_lut, b_strength, b_debanding, b_i,
                   processed_images, os_bound, progress_update, notBatch>>

NextBatch ==
    \/ BatchItemOk
    \/ BatchItemWarn
    \/ BatchItemAbort
    \/ BatchFinish

SpecBatch == InitBatch /\ [][NextBatch]_vars

\* ===================================================================
\* parse_cube_lut
\* ===================================================================
\* The values a LUT_3D_SIZE line can carry.
SizeChoices == {-1, 0, 1, 2}

\* The data rows a file can contain: rows of three values, and rows with
\* fewer or more than three.
Rows == {<<0, 1, 0>>, <<1, 0, 1>>, <<1, 1>>, <<0, 0, 1, 1>>}

\* Error kinds reaching the caller of parse_cube_lut.
MissingSizeError == "LUT_3D_SIZE not found"
SizeMismatchError == "data point count mismatch"
EncodingError == "unsupported file encoding"
ConversionError == "invalid literal"

InitParse ==
    /\ p_pc = "scan"
    /\ p_table = <<>>
    /\ p_size = 0
    /\ p_n = 0
    /\ p_err = ""
    /\ sawSize = FALSE
    /\ dataBeforeSize = FALSE
    /\ oddRow = FALSE
    /\ ximgproc = TRUE
    /\ BatchIdle
    /\ WindowIdle
    /\ PixelIdle
    /\ ShareIdle
    /\ LibIdle

\* The next line is blank or a comment (skipped), or starts with neither
\* LUT_3D_SIZE, a digit nor '-' (falls through every test).
ScanIgnored ==
    /\ p_pc = "scan"
    /\ p_n < MaxLines
    /\ p_n' = p_n + 1
    /\ UNCHANGED <<p_pc, p_table, p_size, p_err, sawSize, dataBeforeSize,
                   oddRow, notParse>>

\* The next line starts with LUT_3D_SIZE and its last token is an integer.
ScanSize ==
    /\ p_pc = "scan"
    /\ p_n < MaxLines
    /\ \E n \in SizeChoices : p_size' = n
    /\ sawSize' = TRUE
    /\ p_n' = p_n + 1
    /\ UNCHANGED <<p_pc, p_table, p_err, dataBeforeSize, oddRow, notParse>>

\* The next line starts with a digit or '-' and every token is a float:
\* the values are appended in file order.
ScanData ==
    /\ p_pc = "scan"
    /\ p_n < MaxLines
    /\ \E parts \in Rows :
          /\ p_table' = p_table \o parts
          /\ oddRow' = (oddRow \/ Len(parts) # 3)
    /\ dataBeforeSize' = (dataBeforeSize \/ ~sawSize)
    /\ p_n' = p_n + 1
    /\ UNCHANGED <<p_pc, p_size, p_err, sawSize, notParse>>

\* The next line makes int() or float() raise ValueError (it propagates to
\* the caller), or cannot be decoded as UTF-8 (UnicodeDecodeError, turned
\* into the encoding error).
ScanRaise ==
    /\ p_pc = "scan"
    /\ p_n < MaxLines
    /\ p_err' \in {ConversionError, EncodingError}
    /\ p_pc' = "raised"
    /\ p_n' = p_n + 1
    /\ UNCHANGED <<p_table, p_size, sawSize, dataBeforeSize, oddRow, notParse>>

\* ParseResult with the missing-size test left out.
ParseResult_NoSizeTest(table, size) ==
    IF Len(table) # size * size * size * 3
    THEN SizeMismatchError
    ELSE ""

\* ParseResult with the count test accepting any table that is long enough.
ParseResult_AtLeast(table, size) ==
    IF size = 0 THEN MissingSizeError
    ELSE IF Len(table) < size * size * size * 3
         THEN SizeMismatchError
         ELSE ""

\* The checks after the scan: the error raised, or "" when (lut_table,
\* size) is returned.
ParseResult(table, size) ==
    IF size = 0 THEN MissingSizeError
    ELSE IF Len(table) # size * size * size * 3
         THEN SizeMismatchError
         ELSE ""

\* End of file.
ParseEnd ==
    /\ p_pc = "scan"
    /\ p_err' = ParseResult(p_table, p_size)
    /\ p_pc' = IF ParseResult(p_table, p_size) = "" THEN "returned" ELSE "raised"
    /\ UNCHANGED <<p_table, p_size, p_n, sawSize, dataBeforeSize, oddRow, notParse>>

NextParse ==
    \/ ScanIgnored
    \/ ScanSize
    \/ ScanData
    \/ ScanRaise
    \/ ParseEnd

SpecParse == InitParse /\ [][NextParse]_vars

\* ===================================================================
\* The window (LutAppWindow): loading images and LUTs, previews, apply,
\* the worker threads and the slots their signals are delivered to
\* ===================================================================
MaxPending == 2
MaxClicks == 4
MaxDetached == 1

\* What the user picks in the image dialog or drops on the window.
Selections ==
    {<<"in/a.png">>, <<"in/gray.png">>, <<"in/bad.png">>,
     <<"in/a.png", "in/bad.png", "alt/a.png">>}

\* The .cube files the user can open, and what parse_cube_lut makes of
\* each: a table with its size, or an exception.
LutFiles == {"lutA.cube", "lutB.cube", "bad.cube"}

parse_cube_lut(file) ==
    CASE file = "lutA.cube" -> [ok |-> TRUE, table |-> "lutA", size |-> 2]
      [] file = "lutB.cube" -> [ok |-> TRUE, table |-> "lutB", size |-> 3]
      [] OTHER              -> [ok |-> FALSE, table |-> "", size |-> 0]

\* f"{name}_lut{ext}" of on_batch_save
SaveName(original_path) ==
    CASE Basename[original_path] = "a.png"    -> "a_lut.png"
      [] Basename[original_path] = "rgba.png" -> "rgba_lut.png"
      [] Basename[original_path] = "gray.png" -> "gray_lut.png"
      [] OTHER                                -> "bad_lut.png"

\* An emitted signal: processing_finished carries an image or a list of
\* images, processing_error a message; `slot` is the connected slot and
\* `strength` the strength captured by the connection.
Signal(sig, slot, img, imgs, strength) ==
    [sig |-> sig, slot |-> slot, img |-> img, imgs |-> imgs,
     strength |-> strength]

\* worker_thread and worker_thread.isRunning()
isRunning ==
    w_pc \in {"sampling", "blending", "dither", "deband", "emit", "batch"}

\* _apply_lut_preview: the worker state after the call. Nothing happens
\* while a thread is running; otherwise a thread is constructed with the
\* image, the LUT table and size, the slider strength and dithering_mode,
\* and started.
apply_lut_preview_pc == IF isRunning THEN w_pc ELSE "sampling"
apply_lut_preview_args(source_img, lut, size, mode, strength) ==
    IF isRunning THEN w_args
    ELSE ImageThread("on_preview_finished", source_img, lut, size, strength,
                     mode)

\* The images BatchProcessingThread.run appends for the paths that do not
\* raise.
RECURSIVE ProcessedImages(_, _, _, _, _)
ProcessedImages(paths, lut, strength, debanding, xp) ==
    IF paths = <<>> THEN <<>>
    ELSE IF ItemRaises(Head(paths))
         THEN ProcessedImages(Tail(paths), lut, strength, debanding, xp)
         ELSE <<ItemResult(Head(paths), lut, strength, debanding, xp)>>
              \o ProcessedImages(Tail(paths), lut, strength, debanding, xp)

\* The one signal a thread emits to the window when its run() ends.
\* ImageProcessingThread: the result, or the error of a source that cannot
\* be converted. BatchProcessingThread: an error when the first path
\* raises (the handler's `os` is still unbound) or when no path succeeded,
\* the list of processed images otherwise.
ThreadOutcome(args, xp) ==
    IF args.kind = "image"
    THEN IF PipelineRaises(args.source_img)
         THEN Signal("processing_error", "on_process_error", None, <<>>,
                     args.strength)
         ELSE Signal("processing_finished", args.slot,
                     apply_lut_to_image(args.source_img, args.lut,
                                        args.strength, args.debanding, xp),
                     <<>>, args.strength)
    ELSE LET imgs == ProcessedImages(args.paths, args.lut, args.strength,
                                     args.debanding, xp)
         IN  IF (args.paths # <<>> /\ ItemRaises(Head(args.paths)))
                \/ imgs = <<>>
             THEN Signal("processing_error", "on_process_error", None, <<>>,
                         args.strength)
             ELSE Signal("processing_finished", args.slot, None, imgs,
                         args.strength)

\* The window after one image and then a LUT were opened: opening the LUT
\* started the first preview.
InitPipe ==
    /\ source_image \in {imdecode("in/a.png"), imdecode("in/gray.png")}
    /\ \E file \in LutFiles :
          /\ parse_cube_lut(file).ok
          /\ lut_table = parse_cube_lut(file).table
          /\ lut_size = parse_cube_lut(file).size
    /\ lut_strength = 100
    /\ dithering_mode = "none"
    /\ processed_image = None
    /\ last_preview_strength = NoStrength
    /\ win_image_paths = <<source_image.src>>
    /\ loaded_images = <<>>
    /\ batch_mode = FALSE
    /\ btn_preview_enabled = TRUE
    /\ btn_process_enabled = TRUE
    /\ saved = <<>>
    /\ clicks = 2
    /\ warnings = 0
    /\ lut_errors = 0
    /\ w_pc = "sampling"
    /\ w_args = ImageThread("on_preview_finished", source_image, lut_table,
                            lut_size, 100, "none")
    /\ result_bgr = None
    /\ signals = <<>>
    /\ ran = [m \in DitheringModes |-> {}]
    /\ detached = <<>>
    /\ crashed = FALSE
    /\ ximgproc \in BOOLEAN
    /\ BatchIdle
    /\ ParseIdle
    /\ PixelIdle
    /\ ShareIdle
    /\ LibIdle

\* The window as constructed, in a runtime with or without cv2.ximgproc.
InitWindow ==
    /\ WindowIdle
    /\ ximgproc \in BOOLEAN
    /\ BatchIdle
    /\ ParseIdle
    /\ PixelIdle
    /\ ShareIdle
    /\ LibIdle

\* The body of on_open_image and of _load_images_from_paths up to the
\* automatic preview: the paths are stored first; a first file that cannot
\* be decoded raises and leaves the rest as it was.
LoadImages(file_paths) ==
    /\ win_image_paths' = file_paths
    /\ loaded_images' = <<>>
    /\ IF imdecode(file_paths[1]) = None
       THEN UNCHANGED <<source_image, last_preview_strength, batch_mode>>
       ELSE /\ source_image' = RemoveAlpha(imdecode(file_paths[1]))
            /\ last_preview_strength' = NoStrength
            /\ batch_mode' = (Len(file_paths) > 1)

\* on_open_image: the user picked files in the dialog.
on_open_image ==
    /\ ~crashed
    /\ clicks < MaxClicks
    /\ clicks' = clicks + 1
    /\ \E file_paths \in Selections : LoadImages(file_paths)
    /\ UNCHANGED <<lut_table, lut_size, lut_strength, dithering_mode,
                   processed_image, btn_preview_enabled, btn_process_enabled,
                   saved, warnings, workerVars, lut_errors,
                   notWindow>>

\* dropEvent with image files: _load_images_from_paths, which previews
\* when a LUT is loaded.
load_images_from_paths ==
    /\ ~crashed
    /\ clicks < MaxClicks
    /\ Len(signals) < MaxPending
    /\ clicks' = clicks + 1
    /\ \E file_paths \in Selections :
          /\ LoadImages(file_paths)
          /\ IF imdecode(file_paths[1]) # None /\ lut_table # ""
             THEN /\ w_pc' = apply_lut_preview_pc
                  /\ w_args' = apply_lut_preview_args(
                         RemoveAlpha(imdecode(file_paths[1])), lut_table,
                         lut_size, dithering_mode, lut_strength)
             ELSE UNCHANGED <<w_pc, w_args>>
    /\ UNCHANGED <<lut_table, lut_size, lut_strength, dithering_mode,
                   processed_image, btn_preview_enabled, btn_process_enabled,
                   saved, warnings, result_bgr, signals, ran, detached, crashed,
                   lut_errors,
                   notWindow>>

\* The table is assigned before the parse has succeeded.
LoadLut_AssignsBeforeParse(file, resets) ==
    /\ lut_table' = parse_cube_lut(file).table
    /\ lut_size' = IF parse_cube_lut(file).ok THEN parse_cube_lut(file).size
                   ELSE lut_size
    /\ lut_errors' = IF parse_cube_lut(file).ok THEN lut_errors
                     ELSE lut_errors + 1
    /\ UNCHANGED <<last_preview_strength, w_pc, w_args>>

\* The try block shared by on_open_lut, _load_lut_from_path and
\* on_lut_double_clicked: table and size are assigned together from one
\* parse, a preview starts when an image is loaded; a parse that raises
\* assigns nothing and logs the error. Only the first two reset
\* last_preview_strength.
LoadLut(file, resets) ==
    IF parse_cube_lut(file).ok
    THEN /\ lut_table' = parse_cube_lut(file).table
         /\ lut_size' = parse_cube_lut(file).size
         /\ last_preview_strength' =
                IF resets THEN NoStrength ELSE last_preview_strength
         /\ UNCHANGED lut_errors
         /\ IF source_image # None
            THEN /\ w_pc' = apply_lut_preview_pc
                 /\ w_args' = apply_lut_preview_args(
                        source_image, parse_cube_lut(file).table,
                        parse_cube_lut(file).size, dithering_mode,
                        lut_strength)
            ELSE UNCHANGED <<w_pc, w_args>>
    ELSE /\ lut_errors' = lut_errors + 1
         /\ UNCHANGED <<lut_table, lut_size, last_preview_strength, w_pc,
                        w_args>>

\* What the three LUT loaders leave alone.
lutLoadUnchanged ==
    <<source_image, lut_strength, dithering_mode, processed_image,
      win_image_paths, loaded_images, batch_mode, btn_preview_enabled,
      btn_process_enabled, saved, warnings, result_bgr, signals, ran,
      detached, crashed, notWindow>>

\* on_open_lut: the user picked a .cube file in the dialog.
on_open_lut ==
    /\ ~crashed
    /\ clicks < MaxClicks
    /\ Len(signals) < MaxPending
    /\ clicks' = clicks + 1
    /\ \E file \in LutFiles : LoadLut(file, TRUE)
    /\ UNCHANGED lutLoadUnchanged

\* dropEvent with a .cube file: _load_lut_from_path.
load_lut_from_path ==
    /\ ~crashed
    /\ clicks < MaxClicks
    /\ Len(signals) < MaxPending
    /\ clicks' = clicks + 1
    /\ \E file \in LutFiles : LoadLut(file, TRUE)
    /\ UNCHANGED lutLoadUnchanged

\* on_lut_double_clicked on a file item of the LUT tree.
on_lut_double_clicked ==
    /\ ~crashed
    /\ clicks < MaxClicks
    /\ Len(signals) < MaxPending
    /\ clicks' = clicks + 1
    /\ \E file \in LutFiles : LoadLut(file, FALSE)
    /\ UNCHANGED lutLoadUnchanged

\* on_strength_changed(value): the slider, visible once an image is
\* loaded, moved to another value.
on_strength_changed ==
    /\ ~crashed
    /\ clicks < MaxClicks
    /\ Len(signals) < MaxPending
    /\ source_image # None
    /\ clicks' = clicks + 1
    /\ \E value \in Strengths \ {lut_strength} :
          /\ lut_strength' = value
          /\ IF source_image # None /\ lut_table # ""
             THEN /\ w_pc' = apply_lut_preview_pc
                  /\ w_args' = apply_lut_preview_args(
                         source_image, lut_table, lut_size, dithering_mode,
                         value)
             ELSE UNCHANGED <<w_pc, w_args>>
    /\ UNCHANGED <<source_image, lut_table, lut_size, dithering_mode,
                   processed_image, last_preview_strength, win_image_paths,
                   loaded_images, batch_mode, btn_preview_enabled,
                   btn_process_enabled, saved, warnings, result_bgr, signals, ran,
                   detached, crashed, lut_errors,
                   notWindow>>

\* on_dithering_changed(index): another entry of the combo box, visible
\* once an image is loaded, was chosen.
on_dithering_changed ==
    /\ ~crashed
    /\ clicks < MaxClicks
    /\ Len(signals) < MaxPending
    /\ source_image # None
    /\ clicks' = clicks + 1
    /\ \E data \in DitheringModes \ {dithering_mode} :
          /\ dithering_mode' = data
          /\ IF source_image # None /\ lut_table # ""
             THEN /\ w_pc' = apply_lut_preview_pc
                  /\ w_args' = apply_lut_preview_args(
                         source_image, lut_table, lut_size, data,
                         lut_strength)
             ELSE UNCHANGED <<w_pc, w_args>>
    /\ UNCHANGED <<source_image, lut_table, lut_size, lut_strength,
                   processed_image, last_preview_strength, win_image_paths,
                   loaded_images, batch_mode, btn_preview_enabled,
                   btn_process_enabled, saved, warnings, result_bgr, signals, ran,
                   detached, crashed, lut_errors,
                   notWindow>>

\* The tick only looks for a preview that was never made.
ensure_preview_synced_FirstPreviewOnly ==
    /\ ~crashed
    /\ Len(signals) < MaxPending
    /\ source_image # None /\ lut_table # ""
    /\ ~isRunning
    /\ last_preview_strength = NoStrength
    /\ w_pc' = apply_lut_preview_pc
    /\ w_args' = apply_lut_preview_args(source_image, lut_table, lut_size,
                                        dithering_mode, lut_strength)
    /\ UNCHANGED <<windowVars, result_bgr, signals, ran, detached, crashed,
                   notWindow>>

\* _ensure_preview_synced: a tick of preview_sync_timer that starts a
\* preview (the strength controls are visible once an image is loaded).
ensure_preview_synced ==
    /\ ~crashed
    /\ Len(signals) < MaxPending
    /\ source_image # None /\ lut_table # ""
    /\ ~isRunning
    /\ \/ last_preview_strength = NoStrength
       \/ lut_strength # last_preview_strength
    /\ w_pc' = apply_lut_preview_pc
    /\ w_args' = apply_lut_preview_args(source_image, lut_table, lut_size,
                                        dithering_mode, lut_strength)
    /\ UNCHANGED <<windowVars, result_bgr, signals, ran, detached, crashed,
                   notWindow>>

\* The first test only.
InputsLoaded_SourceOnly == source_image # None

\* The two tests that open on_preview and on_process_start.
InputsLoaded == source_image # None /\ lut_table # ""

\* worker_thread = <new thread>: a thread that is still running loses its
\* last reference and runs on detached.
DetachRunning ==
    /\ isRunning => Len(detached) < MaxDetached
    /\ detached' = IF isRunning THEN Append(detached, w_args) ELSE detached

\* on_preview: the preview button, visible in batch mode, was clicked.
on_preview ==
    /\ ~crashed
    /\ clicks < MaxClicks
    /\ Len(signals) < MaxPending
    /\ batch_mode /\ btn_preview_enabled
    /\ clicks' = clicks + 1
    /\ IF InputsLoaded
       THEN /\ btn_preview_enabled' = FALSE
            /\ DetachRunning
            /\ w_pc' = "sampling"
            /\ w_args' = ImageThread("on_preview_finished", source_image,
                                     lut_table, lut_size, lut_strength,
                                     dithering_mode)
            /\ UNCHANGED warnings
       ELSE /\ warnings' = warnings + 1
            /\ UNCHANGED <<btn_preview_enabled, detached, w_pc, w_args>>
    /\ UNCHANGED <<source_image, lut_table, lut_size, lut_strength,
                   dithering_mode, processed_image, last_preview_strength,
                   win_image_paths, loaded_images, batch_mode,
                   btn_process_enabled, saved, result_bgr, signals, ran,
                   crashed, lut_errors,
                   notWindow>>

\* on_process_start: the apply button was clicked.
on_process_start ==
    /\ ~crashed
    /\ clicks < MaxClicks
    /\ Len(signals) < MaxPending
    /\ btn_process_enabled
    /\ clicks' = clicks + 1
    /\ IF InputsLoaded
       THEN /\ btn_process_enabled' = FALSE
            /\ DetachRunning
            /\ IF batch_mode
               THEN /\ w_pc' = "batch"
                    /\ w_args' = BatchThread(win_image_paths, lut_table,
                                             lut_size, lut_strength,
                                             dithering_mode)
               ELSE /\ w_pc' = "sampling"
                    /\ w_args' = ImageThread("on_process_finished",
                                             source_image, lut_table,
                                             lut_size, lut_strength,
                                             dithering_mode)
            /\ UNCHANGED warnings
       ELSE /\ warnings' = warnings + 1
            /\ UNCHANGED <<btn_process_enabled, detached, w_pc, w_args>>
    /\ UNCHANGED <<source_image, lut_table, lut_size, lut_strength,
                   dithering_mode, processed_image, last_preview_strength,
                   win_image_paths, loaded_images, batch_mode,
                   btn_preview_enabled, saved, result_bgr, signals, ran,
                   crashed, lut_errors,
                   notWindow>>

\* The blend step is left out.
WorkerSample_SkipsBlend ==
    /\ ~crashed
    /\ w_pc = "sampling"
    /\ ~PipelineRaises(w_args.source_img)
    /\ result_bgr' = SampleLut(w_args.source_img, w_args.lut)
    /\ w_pc' = "dither"
    /\ UNCHANGED <<w_args, signals, ran, detached, crashed, windowVars,
                   notWindow>>

\* The exception is swallowed.
WorkerSample_SilentFailure ==
    /\ ~crashed
    /\ w_pc = "sampling"
    /\ IF PipelineRaises(w_args.source_img)
       THEN /\ w_pc' = "finished"
            /\ UNCHANGED <<result_bgr, signals>>
       ELSE /\ result_bgr' = SampleLut(w_args.source_img, w_args.lut)
            /\ w_pc' = "blending"
            /\ UNCHANGED signals
    /\ UNCHANGED <<w_args, ran, detached, crashed, windowVars, notWindow>>

\* ImageProcessingThread.run, apply_lut_to_image steps 1-4. A source that
\* cannot be converted raises; the thread emits processing_error.
WorkerSample ==
    /\ ~crashed
    /\ w_pc = "sampling"
    /\ IF PipelineRaises(w_args.source_img)
       THEN /\ signals' = Append(signals,
                   Signal("processing_error", "on_process_error", None, <<>>,
                          w_args.strength))
            /\ w_pc' = "finished"
            /\ UNCHANGED result_bgr
       ELSE /\ result_bgr' = SampleLut(w_args.source_img, w_args.lut)
            /\ w_pc' = "blending"
            /\ UNCHANGED signals
    /\ UNCHANGED <<w_args, ran, detached, crashed, windowVars, notWindow>>

\* Step 5.
WorkerBlend ==
    /\ ~crashed
    /\ w_pc = "blending"
    /\ result_bgr' = BlendStrength(result_bgr, w_args.strength)
    /\ w_pc' = "dither"
    /\ UNCHANGED <<w_args, signals, ran, detached, crashed, windowVars,
                   notWindow>>

\* Step 6.
WorkerDither ==
    /\ ~crashed
    /\ w_pc = "dither"
    /\ result_bgr' = DitherStage(result_bgr, w_args.debanding)
    /\ w_pc' = "deband"
    /\ UNCHANGED <<w_args, signals, ran, detached, crashed, windowVars,
                   notWindow>>

\* The transforms applied to an image after the LUT and the blend.
MitigationOps(image) ==
    SelectSeq(image.ops, LAMBDA o : o.op \notin {"lut3d", "addWeighted"})

\* Step 7; apply_lut_to_image returns.
WorkerDeband ==
    /\ ~crashed
    /\ w_pc = "deband"
    /\ result_bgr' = DebandStage(result_bgr, w_args.debanding, ximgproc)
    /\ ran' = [ran EXCEPT ![w_args.debanding] =
                   @ \cup {MitigationOps(result_bgr')}]
    /\ w_pc' = "emit"
    /\ UNCHANGED <<w_args, signals, detached, crashed, windowVars, notWindow>>

\* processing_finished.emit(result_bgr); run() returns.
WorkerEmit ==
    /\ ~crashed
    /\ w_pc = "emit"
    /\ signals' = Append(signals,
           Signal("processing_finished", w_args.slot, result_bgr, <<>>,
                  w_args.strength))
    /\ w_pc' = "finished"
    /\ UNCHANGED <<w_args, result_bgr, ran, detached, crashed, windowVars,
                   notWindow>>

\* BatchProcessingThread.run of the window's worker_thread, from start to
\* its one signal to the window.
WorkerBatch ==
    /\ ~crashed
    /\ w_pc = "batch"
    /\ signals' = Append(signals, ThreadOutcome(w_args, ximgproc))
    /\ w_pc' = "finished"
    /\ UNCHANGED <<w_args, result_bgr, ran, detached, crashed, windowVars,
                   notWindow>>

\* A detached thread runs to its end and emits its signal. Its QThread
\* object has no owner left: destroying it while the thread is still
\* winding down aborts the process, or does not.
DetachedRun ==
    /\ ~crashed
    /\ \E i \in 1..Len(detached) :
          /\ signals' = Append(signals, ThreadOutcome(detached[i], ximgproc))
          /\ detached' = SubSeq(detached, 1, i - 1)
                         \o SubSeq(detached, i + 1, Len(detached))
    /\ crashed' \in BOOLEAN
    /\ UNCHANGED <<w_pc, w_args, result_bgr, ran, windowVars, notWindow>>

\* on_preview_finished(result_image, silent, applied_strength): the slot
\* connected to processing_finished by _apply_lut_preview and on_preview.
on_preview_finished ==
    /\ ~crashed
    /\ signals # <<>>
    /\ Head(signals).sig = "processing_finished"
    /\ Head(signals).slot = "on_preview_finished"
    /\ processed_image' = Head(signals).img
    /\ last_preview_strength' = Head(signals).strength
    /\ btn_preview_enabled' = TRUE
    /\ signals' = Tail(signals)
    /\ UNCHANGED <<source_image, lut_table, lut_size, lut_strength,
                   dithering_mode, win_image_paths, loaded_images, batch_mode,
                   btn_process_enabled, saved, warnings, clicks, w_pc, w_args,
                   result_bgr, ran, detached, crashed, lut_errors,
                   notWindow>>

\* on_process_finished(result_image)
on_process_finished ==
    /\ ~crashed
    /\ signals # <<>>
    /\ Head(signals).sig = "processing_finished"
    /\ Head(signals).slot = "on_process_finished"
    /\ processed_image' = Head(signals).img
    /\ btn_process_enabled' = TRUE
    /\ signals' = Tail(signals)
    /\ UNCHANGED <<source_image, lut_table, lut_size, lut_strength,
                   dithering_mode, last_preview_strength, win_image_paths,
                   loaded_images, batch_mode, btn_preview_enabled, saved, warnings,
                   clicks, w_pc, w_args, result_bgr, ran, detached, crashed,
                   lut_errors,
                   notWindow>>

\* on_batch_save: one file per pair of zip(loaded_images, image_paths).
BatchSaveWrites(images, paths) ==
    [i \in 1..(IF Len(images) < Len(paths) THEN Len(images) ELSE Len(paths))
        |-> [file |-> SaveName(paths[i]), img |-> images[i]]]

\* on_batch_finished(processed_images), which ends in on_batch_save: the
\* user picks a folder or cancels the dialog.
on_batch_finished ==
    /\ ~crashed
    /\ signals # <<>>
    /\ Head(signals).sig = "processing_finished"
    /\ Head(signals).slot = "on_batch_finished"
    /\ loaded_images' = Head(signals).imgs
    /\ processed_image' = IF Head(signals).imgs # <<>>
                          THEN Head(signals).imgs[1] ELSE processed_image
    /\ btn_process_enabled' = TRUE
    /\ \E save_dir \in BOOLEAN :
          saved' = IF save_dir /\ Head(signals).imgs # <<>>
                   THEN saved \o BatchSaveWrites(Head(signals).imgs,
                                                 win_image_paths)
                   ELSE saved
    /\ signals' = Tail(signals)
    /\ UNCHANGED <<source_image, lut_table, lut_size, lut_strength,
                   dithering_mode, last_preview_strength, win_image_paths,
                   batch_mode, btn_preview_enabled, clicks, warnings, w_pc,
                   w_args, result_bgr, ran, detached, crashed, lut_errors,
                   notWindow>>

\* on_process_error(error_msg): logs the message, resets the apply button.
on_process_error ==
    /\ ~crashed
    /\ signals # <<>>
    /\ Head(signals).sig = "processing_error"
    /\ btn_process_enabled' = TRUE
    /\ signals' = Tail(signals)
    /\ UNCHANGED <<source_image, lut_table, lut_size, lut_strength,
                   dithering_mode, processed_image, last_preview_strength,
                   win_image_paths, loaded_images, batch_mode,
                   btn_preview_enabled, saved, warnings, clicks, w_pc, w_args,
                   result_bgr, ran, detached, crashed, lut_errors,
                   notWindow>>

\* The window with one image and a LUT loaded: slider, combo box, timer,
\* the preview thread and its slots.
NextPipe ==
    \/ on_strength_changed
    \/ on_dithering_changed
    \/ ensure_preview_synced
    \/ WorkerSample
    \/ WorkerBlend
    \/ WorkerDither
    \/ WorkerDeband
    \/ WorkerEmit
    \/ on_preview_finished
    \/ on_process_error

SpecPipe == InitPipe /\ [][NextPipe]_vars

\* The whole window, from its construction.
NextWindow ==
    \/ on_open_image
    \/ load_images_from_paths
    \/ on_open_lut
    \/ load_lut_from_path
    \/ on_lut_double_clicked
    \/ on_strength_changed
    \/ on_dithering_changed
    \/ ensure_preview_synced
    \/ on_preview
    \/ on_process_start
    \/ WorkerSample
    \/ WorkerBlend
    \/ WorkerDither
    \/ WorkerDeband
    \/ WorkerEmit
    \/ WorkerBatch
    \/ DetachedRun
    \/ on_preview_finished
    \/ on_process_finished
    \/ on_batch_finished
    \/ on_process_error

SpecWindow == InitWindow /\ [][NextWindow]_vars

\* The steps of the window's ImageProcessingThread.
WorkerStep ==
    \/ WorkerSample
    \/ WorkerBlend
    \/ WorkerDither
    \/ WorkerDeband
    \/ WorkerEmit

\* The window under the scheduling the runtime gives: a started thread
\* runs until run() returns, the event loop delivers every queued signal
\* to its slot, and preview_sync_timer ticks every 200 ms. The user is
\* under no obligation to act.
SpecWindowFair ==
    /\ InitWindow
    /\ [][NextWindow]_vars
    /\ WF_vars(WorkerStep)
    /\ WF_vars(WorkerBatch)
    /\ WF_vars(DetachedRun)
    /\ WF_vars(on_preview_finished)
    /\ WF_vars(on_process_finished)
    /\ WF_vars(on_batch_finished)
    /\ WF_vars(on_process_error)
    /\ WF_vars(ensure_preview_synced)

\* One ImageProcessingThread from start() to the end of run(), for any
\* image, LUT, strength and mode the window can pass; a started thread is
\* scheduled until run() returns.
InitRun ==
    /\ source_image \in {imdecode("in/a.png"), imdecode("in/gray.png")}
    /\ \E file \in LutFiles :
          /\ parse_cube_lut(file).ok
          /\ lut_table = parse_cube_lut(file).table
          /\ lut_size = parse_cube_lut(file).size
    /\ lut_strength \in Strengths
    /\ dithering_mode \in DitheringModes
    /\ processed_image = None
    /\ last_preview_strength = NoStrength
    /\ win_image_paths = <<source_image.src>>
    /\ loaded_images = <<>>
    /\ batch_mode = FALSE
    /\ btn_preview_enabled = TRUE
    /\ btn_process_enabled = FALSE
    /\ saved = <<>>
    /\ clicks = MaxClicks
    /\ warnings = 0
    /\ lut_errors = 0
    /\ w_pc = "sampling"
    /\ w_args = ImageThread("on_process_finished", source_image, lut_table,
                            lut_size, lut_strength, dithering_mode)
    /\ result_bgr = None
    /\ signals = <<>>
    /\ ran = [m \in DitheringModes |-> {}]
    /\ detached = <<>>
    /\ crashed = FALSE
    /\ ximgproc \in BOOLEAN
    /\ BatchIdle
    /\ ParseIdle
    /\ PixelIdle
    /\ ShareIdle
    /\ LibIdle

NextRun ==
    \/ WorkerSample
    \/ WorkerBlend
    \/ WorkerDither
    \/ WorkerDeband
    \/ WorkerEmit

SpecRun == InitRun /\ [][NextRun]_vars /\ WF_vars(NextRun)

\* ===================================================================
\* apply_lut_to_image on pixels, step by step, called MaxRuns times with
\* the same arguments
\* ===================================================================
InitPixel ==
    /\ x_src \in PxImages
    /\ x_lut \in Luts
    /\ x_strength \in PixelStrengths
    /\ x_debanding \in DitheringModes
    /\ x_pc = "sampling"
    /\ x_img = NoPx
    /\ blue_noise_texture = generate_blue_noise_texture(TexSize, Seed)
    /\ x_calls = 1
    /\ x_first = NoPx
    /\ ximgproc \in BOOLEAN
    /\ BatchIdle
    /\ ParseIdle
    /\ WindowIdle
    /\ ShareIdle
    /\ LibIdle

\* Steps 1-4.
PxSample ==
    /\ x_pc = "sampling"
    /\ x_img' = SamplePx(x_src, x_lut)
    /\ x_pc' = "blending"
    /\ UNCHANGED <<x_src, x_lut, x_strength, x_debanding, blue_noise_texture,
                   x_calls, x_first, ximgproc, notPixel>>

\* Step 5.
PxBlend ==
    /\ x_pc = "blending"
    /\ x_img' = BlendPx(x_src, x_img, x_strength)
    /\ x_pc' = "dither"
    /\ UNCHANGED <<x_src, x_lut, x_strength, x_debanding, blue_noise_texture,
                   x_calls, x_first, ximgproc, notPixel>>

\* Step 6.
PxDither ==
    /\ x_pc = "dither"
    /\ IF Truthy(x_debanding)
       THEN /\ x_img' = apply_blue_noise_dither(x_img, 2, blue_noise_texture,
                                                TexSize)
            /\ blue_noise_texture' =
                   TextureAfterDither(blue_noise_texture, x_calls)
       ELSE UNCHANGED <<x_img, blue_noise_texture>>
    /\ x_pc' = "deband"
    /\ UNCHANGED <<x_src, x_lut, x_strength, x_debanding, x_calls, x_first,
                   ximgproc, notPixel>>

\* Step 7; the call returns x_img.
PxDeband ==
    /\ x_pc = "deband"
    /\ x_img' = IF Truthy(x_debanding) THEN DebandPx(x_img, ximgproc)
                ELSE x_img
    /\ x_pc' = "done"
    /\ UNCHANGED <<x_src, x_lut, x_strength, x_debanding, blue_noise_texture,
                   x_calls, x_first, ximgproc, notPixel>>

\* The call is made again with the same arguments.
PxCallAgain ==
    /\ x_pc = "done"
    /\ x_calls < MaxRuns
    /\ x_first' = IF x_calls = 1 THEN x_img ELSE x_first
    /\ x_calls' = x_calls + 1
    /\ x_img' = NoPx
    /\ x_pc' = "sampling"
    /\ UNCHANGED <<x_src, x_lut, x_strength, x_debanding, blue_noise_texture,
                   ximgproc, notPixel>>

NextPixel ==
    \/ PxSample
    \/ PxBlend
    \/ PxDither
    \/ PxDeband
    \/ PxCallAgain

SpecPixel == InitPixel /\ [][NextPixel]_vars

\* ===================================================================
\* Two threads in apply_lut_to_image at once, given the same source image
\* and LUT table, reading the same noise tile
\* ===================================================================
ShareImages ==
    {MakeImage(h, TexSize + 1, v1, 255) : h \in {1, TexSize + 1},
                                          v1 \in {0, 128}}

\* What the call is at rest: everything but the shared arguments, the
\* tile and the two calls.
notShare ==
    <<x_strength, x_debanding, x_pc, x_img, x_calls, x_first, ximgproc,
      batchVars, parseVars, windowVars, workerVars, libVars>>

\* cv2.addWeighted is called with dst given as the source image.
SourceAfterBlend_InPlace(source_img, result) == result

\* source_img after step 5: cv2.addWeighted(source_img, ..., result_bgr,
\* ..., 0) allocates its destination, as cv2.cvtColor does in step 1; the
\* argument is only read.
SourceAfterBlend(source_img, result) == source_img

InitShare ==
    /\ x_src \in ShareImages
    /\ x_lut \in Luts
    /\ s_strength \in [Workers -> {30, 100}]
    /\ s_debanding \in [Workers -> {"none", "noise"}]
    /\ s_pc = [w \in Workers |-> "sampling"]
    /\ s_img = [w \in Workers |-> NoPx]
    /\ blue_noise_texture = generate_blue_noise_texture(TexSize, Seed)
    /\ x_strength = 100
    /\ x_debanding = "none"
    /\ x_pc = "idle"
    /\ x_img = NoPx
    /\ x_calls = 0
    /\ x_first = NoPx
    /\ ximgproc \in BOOLEAN
    /\ BatchIdle
    /\ ParseIdle
    /\ WindowIdle
    /\ LibIdle

\* Steps 1-4 of one of the calls.
ShSample ==
    /\ \E w \in Workers :
          /\ s_pc[w] = "sampling"
          /\ s_img' = [s_img EXCEPT ![w] = SamplePx(x_src, x_lut)]
          /\ s_pc' = [s_pc EXCEPT ![w] = "blending"]
    /\ UNCHANGED <<x_src, x_lut, blue_noise_texture, s_strength, s_debanding,
                   notShare>>

\* Step 5 of one of the calls.
ShBlend ==
    /\ \E w \in Workers :
          /\ s_pc[w] = "blending"
          /\ s_img' = [s_img EXCEPT
                          ![w] = BlendPx(x_src, s_img[w], s_strength[w])]
          /\ x_src' = IF s_strength[w] < 100
                      THEN SourceAfterBlend(x_src, s_img'[w])
                      ELSE x_src
          /\ s_pc' = [s_pc EXCEPT ![w] = "dither"]
    /\ UNCHANGED <<x_lut, blue_noise_texture, s_strength, s_debanding,
                   notShare>>

\* Step 6 of one of the calls.
ShDither ==
    /\ \E w \in Workers :
          /\ s_pc[w] = "dither"
          /\ IF Truthy(s_debanding[w])
             THEN /\ s_img' = [s_img EXCEPT
                                  ![w] = apply_blue_noise_dither(
                                             s_img[w], 2, blue_noise_texture,
                                             TexSize)]
                  /\ blue_noise_texture' =
                         TextureAfterDither(blue_noise_texture, 1)
             ELSE UNCHANGED <<s_img, blue_noise_texture>>
          /\ s_pc' = [s_pc EXCEPT ![w] = "deband"]
    /\ UNCHANGED <<x_src, x_lut, s_strength, s_debanding, notShare>>

\* Step 7 of one of the calls; the call returns.
ShDeband ==
    /\ \E w \in Workers :
          /\ s_pc[w] = "deband"
          /\ s_img' = [s_img EXCEPT
                          ![w] = IF Truthy(s_debanding[w])
                                 THEN DebandPx(s_img[w], ximgproc)
                                 ELSE s_img[w]]
          /\ s_pc' = [s_pc EXCEPT ![w] = "done"]
    /\ UNCHANGED <<x_src, x_lut, blue_noise_texture, s_strength, s_debanding,
                   notShare>>

NextShare ==
    \/ ShSample
    \/ ShBlend
    \/ ShDither
    \/ ShDeband

SpecShare == InitShare /\ [][NextShare]_vars

\* ===================================================================
\* The LUT library: deleting files and folders of the tree
\* ===================================================================
\* str.startswith
startswith(path, prefix) ==
    /\ Len(prefix) <= Len(path)
    /\ SubSeq(path, 1, Len(prefix)) = prefix

\* The window as constructed: _load_config returns the pinned set of the
\* configuration file, _load_lut_tree lists every folder and .cube file
\* under the LUT directory.
InitLib ==
    /\ lib_fs = LibFolders \cup LibFiles
    /\ pinned_luts \in SUBSET LibFiles
    /\ removed = {}
    /\ ximgproc \in BOOLEAN
    /\ BatchIdle
    /\ ParseIdle
    /\ WindowIdle
    /\ PixelIdle
    /\ ShareIdle

\* on_delete_lut: the delete button, with a file item of the tree
\* selected that passes the startswith test.
on_delete_lut ==
    /\ \E path \in lib_fs \cap LibFiles :
          /\ startswith(path, custom_lut_dir)
          /\ lib_fs' = lib_fs \ {path}
          /\ pinned_luts' = pinned_luts \ {path}
          /\ removed' = removed \cup {path}
    /\ UNCHANGED <<ximgproc, batchVars, parseVars, windowVars, workerVars,
                   pixelVars, shareVars>>

\* The test on_lut_context_menu makes before it offers rename and delete.
is_custom(path) == startswith(path, custom_lut_dir)

\* on_delete_lut_context(path): "delete" of the context menu of a file
\* item. The closing call of _load_lut_list, which the class does not
\* define, raises after the file is gone and is logged by the handler.
on_delete_lut_context ==
    /\ \E path \in lib_fs \cap LibFiles :
          /\ is_custom(path)
          /\ startswith(path, custom_lut_dir)
          /\ lib_fs' = lib_fs \ {path}
          /\ pinned_luts' = pinned_luts \ {path}
          /\ removed' = removed \cup {path}
    /\ UNCHANGED <<ximgproc, batchVars, parseVars, windowVars, workerVars,
                   pixelVars, shareVars>>

\* on_delete_folder(path): "delete" of the context menu of a folder item;
\* shutil.rmtree removes the folder and everything below it.
on_delete_folder ==
    /\ \E path \in lib_fs \cap LibFolders :
          /\ is_custom(path)
          /\ startswith(path, custom_lut_dir)
          /\ LET gone == {q \in lib_fs :
                             q = path \/ startswith(q, path \o <<Sep>>)}
             IN  /\ lib_fs' = lib_fs \ gone
                 /\ removed' = removed \cup gone
          /\ pinned_luts' =
                 {q \in pinned_luts : ~startswith(q, path \o <<Sep>>)}
    /\ UNCHANGED <<ximgproc, batchVars, parseVars, windowVars, workerVars,
                   pixelVars, shareVars>>

NextLib ==
    \/ on_delete_lut
    \/ on_delete_lut_context
    \/ on_delete_folder

SpecLib == InitLib /\ [][NextLib]_vars

\* ===================================================================
\* Properties of the batch run (SpecBatch)
\* ===================================================================
\* Indices of the paths whose processing raises.
FailingIdx == {j \in 1..Len(image_paths) : ItemRaises(image_paths[j])}

\* The images of the paths that do not raise, in input order.
RECURSIVE OkResults(_)
OkResults(paths) ==
    IF paths = <<>> THEN <<>>
    ELSE IF ItemRaises(Head(paths))
         THEN OkResults(Tail(paths))
         ELSE <<ItemResult(Head(paths), b_lut, b_strength, b_debanding, ximgproc)>>
              \o OkResults(Tail(paths))

\* C1: when a batch run has ended, every failing item has its failure
\* recorded as a warning at its own position, every item after it has been
\* processed (has an outcome), and the batch was not aborted, wherever the
\* failing item sits in the sequence.
C1_FailureDoesNotAbort ==
    b_pc = "done" =>
        /\ BatchErrorMsg \notin {b_error[k] : k \in 1..Len(b_error)}
        /\ \A j \in FailingIdx :
              /\ j <= Len(progress_update)
              /\ progress_update[j] = WarnMsg(image_paths[j])
              /\ \A k \in (j + 1)..Len(image_paths) : k <= Len(progress_update)

\* C2: a run in which every item fails ends, after all items have been
\* attempted, with exactly the all-items-failed error and no finished
\* result.
C2_AllFailedError ==
    (b_pc = "done" /\ FailingIdx = 1..Len(image_paths)) =>
        /\ b_i = Len(image_paths)
        /\ Len(progress_update) = Len(image_paths)
        /\ b_error = <<AllFailedMsg>>
        /\ b_finished = <<>>

\* C3: a finished run has exactly one outcome per input path, in input
\* order, each naming its own path; it is a success exactly for the paths
\* that do not fail, so N paths with k failures give N-k successes and k
\* recorded failures.
C3_OneOutcomePerPath ==
    b_pc = "done" =>
        /\ Len(progress_update) = Len(image_paths)
        /\ \A j \in 1..Len(image_paths) :
              /\ progress_update[j].filename = Basename[image_paths[j]]
              /\ (progress_update[j].kind = "warn") <=> (j \in FailingIdx)
        /\ Len(processed_images) = Len(image_paths) - Cardinality(FailingIdx)

\* C4: nothing is emitted before the run ends; a batch error is emitted only
\* when no item succeeded; once an item has succeeded the run ends with one
\* finished result carrying exactly the successfully processed images in
\* input order and no batch error; never both a finished result and an
\* error.
C4_EscalateOnlyWhenNoneSucceeded ==
    /\ b_pc = "loop" => (b_finished = <<>> /\ b_error = <<>>)
    /\ b_pc = "done" =>
        /\ b_error # <<>> => processed_images = <<>>
        /\ processed_images # <<>> =>
              /\ b_finished = <<OkResults(image_paths)>>
              /\ b_error = <<>>
        /\ ~(b_finished # <<>> /\ b_error # <<>>)
        /\ Len(b_finished) + Len(b_error) = 1

\* C4 witness: a finished run in which one item failed between two
\* successes and the finished result carries the two successes.
C4_Witness ==
    /\ b_pc = "done"
    /\ Len(image_paths) = 3
    /\ FailingIdx = {2}
    /\ Len(b_finished) = 1
    /\ Len(b_finished[1]) = 2
    /\ b_error = <<>>

\* ===================================================================
\* Properties of parse_cube_lut (SpecParse)
\* ===================================================================
\* The call has ended after reading the whole file: it returned, or raised
\* one of the two errors of the checks that follow the scan.
ScanCompleted ==
    \/ p_pc = "returned"
    \/ p_pc = "raised" /\ p_err \in {MissingSizeError, SizeMismatchError}

Expected(size) == size * size * size * 3

C6_SizeAtLeastTwo ==
    p_pc = "returned" =>
        /\ p_size >= 2
        /\ Len(p_table) = Expected(p_size)

\* C7: a file that contains a data row with fewer or more than 3 values is
\* never parsed successfully.
C7_EveryRowHasThreeValues ==
    p_pc = "returned" => ~oddRow

\* C8: a file in which a data row precedes the size directive is never
\* parsed successfully.
C8_SizeBeforeData ==
    p_pc = "returned" => ~dataBeforeSize

\* C9: once the whole of a file without a LUT_3D_SIZE directive has been
\* scanned, the call raises the missing-size error and returns no table,
\* whatever data rows were read.
C9_NoDirectiveIsMissingSize ==
    (ScanCompleted /\ ~sawSize) =>
        /\ p_pc = "raised"
        /\ p_err = MissingSizeError

\* C9 witness: a file of eight three-value rows and no directive has been
\* rejected with the missing-size error.
C9_Witness ==
    /\ p_pc = "raised"
    /\ p_err = MissingSizeError
    /\ ~sawSize
    /\ ~oddRow
    /\ Len(p_table) = 24

\* ===================================================================
\* Properties of the mitigation dispatch (SpecPipe)
\* ===================================================================
\* C10: the mitigation that runs is determined by the selected mode: None
\* applies no transform, every other mode applies one, and two different
\* modes other than None never apply the same transform to the blended
\* image.
C10_ModeSelectsTransform ==
    /\ ran["none"] \subseteq {<<>>}
    /\ \A m \in DitheringModes \ {"none"} : <<>> \notin ran[m]
    /\ \A m1, m2 \in DitheringModes \ {"none"} :
          m1 # m2 => ran[m1] \cap ran[m2] = {}

\* The image carries a transform of one of the given names.
HasOp(image, names) == \E i \in 1..Len(image.ops) : image.ops[i].op \in names

DitherOps == {"blue_noise_dither"}
DebandOps == {"dtFilter", "bilateralFilter"}

\* C11 (as stated): the result of a run never carries both the dither and
\* the edge-preserving debanding filter.
C11_DitherDebandExclusive ==
    w_pc = "emit" =>
        ~(HasOp(result_bgr, DitherOps) /\ HasOp(result_bgr, DebandOps))

\* C11 (amended): the dither and the debanding filter are applied together
\* or not at all: the result of a run carries the dither exactly when it
\* carries the debanding filter, and that is exactly when the value passed
\* as `debanding` is truthy.
C11_DitherAndDebandTogether ==
    w_pc = "emit" =>
        /\ HasOp(result_bgr, DitherOps) <=> HasOp(result_bgr, DebandOps)
        /\ HasOp(result_bgr, DitherOps) <=> Truthy(w_args.debanding)

\* C11 witness: a run with mode "ordered" has returned an image that was
\* dithered and filtered.
C11_Witness ==
    /\ w_pc = "emit"
    /\ w_args.debanding = "ordered"
    /\ HasOp(result_bgr, DitherOps)
    /\ HasOp(result_bgr, DebandOps)

\* The stage a run is in fixes what its local result_bgr is: each stage
\* has consumed the whole output of the stage before it.
StageResult ==
    LET sampled == SampleLut(w_args.source_img, w_args.lut)
        blended == BlendStrength(sampled, w_args.strength)
    IN  /\ w_pc = "blending" => result_bgr = sampled
        /\ w_pc = "dither" => result_bgr = blended
        /\ w_pc = "deband" =>
              result_bgr = DitherStage(blended, w_args.debanding)
        /\ w_pc = "emit" =>
              result_bgr = DebandStage(DitherStage(blended, w_args.debanding),
                                       w_args.debanding, ximgproc)

\* The moves of a run between stages: forward by one, from sampling to the
\* end when the stage raised, and from no run or an ended run to a new one.
StageStep ==
    \/ w_pc' = w_pc
    \/ w_pc \in {"none", "finished"} /\ w_pc' = "sampling"
    \/ w_pc = "sampling" /\ w_pc' = "blending"
    \/ /\ w_pc = "sampling" /\ w_pc' = "finished"
       /\ signals' # <<>>
       /\ signals'[Len(signals')].sig = "processing_error"
    \/ w_pc = "blending" /\ w_pc' = "dither"
    \/ w_pc = "dither" /\ w_pc' = "deband"
    \/ w_pc = "deband" /\ w_pc' = "emit"
    \/ /\ w_pc = "emit" /\ w_pc' = "finished"
       /\ signals' # <<>>
       /\ signals'[Len(signals')].sig = "processing_finished"

\* C14: a run moves through sampling, blending and mitigation (dither,
\* debanding) in this order, one stage at a time, never back and never
\* past a stage; blending works on the whole sampled image and mitigation
\* on the whole blended image; the run ends by emitting its result, or by
\* emitting an error when sampling raised.
C14_StagesInOrder == [](StageResult) /\ [][StageStep]_vars

\* C14 witness: a run that blended, dithered and filtered has ended and
\* its result is the last signal emitted.
C14_Witness ==
    /\ w_pc = "finished"
    /\ signals # <<>>
    /\ signals[Len(signals)].sig = "processing_finished"
    /\ Len(signals[Len(signals)].img.ops) = 4

Quiescent ==
    /\ ~crashed
    /\ ~isRunning
    /\ signals = <<>>
    /\ last_preview_strength = lut_strength

\* C24: once no worker runs and the timer has nothing left to do, the
\* displayed result is the one computed from the current image, LUT,
\* slider strength and mitigation mode.
C24_DisplayedResultIsCurrent ==
    (Quiescent /\ ~PipelineRaises(source_image)) =>
        processed_image = apply_lut_to_image(source_image, lut_table,
                                             lut_strength, dithering_mode,
                                             ximgproc)

\* C25: when the process is not aborted and, from some moment on, an
\* image that can be processed and a LUT are loaded, then, the user acting
\* only finitely often, last_preview_strength becomes equal to the slider
\* strength and stays equal, whatever was changed while a thread ran.
C25_PreviewStrengthConverges ==
    ([](~crashed) /\ <>[](/\ source_image # None
                          /\ ~PipelineRaises(source_image)
                          /\ lut_table # ""))
        => <>[](last_preview_strength = lut_strength)

\* C25 witness: the user has stopped, no thread runs, no signal waits, and
\* the last preview was made with a strength the slider no longer shows: a
\* slider change made while a thread ran started no preview.
C25_Witness ==
    /\ source_image # None /\ ~PipelineRaises(source_image)
    /\ lut_table # ""
    /\ ~crashed
    /\ clicks = MaxClicks
    /\ ~isRunning
    /\ detached = <<>>
    /\ signals = <<>>
    /\ last_preview_strength # NoStrength
    /\ last_preview_strength # lut_strength

\* ===================================================================
\* Properties of the window (SpecWindow)
\* ===================================================================
\* A thread was given an image (or paths) and a LUT whose table and size
\* are those of one successful parse.
JobHasInputs(args) ==
    /\ IF args.kind = "image" THEN args.source_img # None
       ELSE args.paths # <<>>
    /\ \E file \in LutFiles :
          /\ parse_cube_lut(file).ok
          /\ parse_cube_lut(file).table = args.lut
          /\ parse_cube_lut(file).size = args.lut_size

\* C17: while the image or the LUT is missing no thread has been started
\* and nothing was produced; a request answered with the not-loaded warning
\* starts no thread and emits nothing; every thread that was started has
\* an image and a LUT whose table and size come from the same parse.
C17_NoJobWithoutInputs ==
    /\ []((source_image = None \/ lut_table = "") =>
            /\ w_pc = "none"
            /\ detached = <<>>
            /\ signals = <<>>
            /\ processed_image = None
            /\ saved = <<>>)
    /\ []((w_pc # "none" => JobHasInputs(w_args))
          /\ \A i \in 1..Len(detached) : JobHasInputs(detached[i]))
    /\ [][warnings' # warnings =>
             UNCHANGED <<w_pc, w_args, detached, signals, processed_image,
                         saved>>]_vars

\* C17 witness: with images loaded and no LUT, preview and apply were both
\* requested and refused, and no thread exists.
C17_Witness ==
    /\ warnings = 2
    /\ source_image # None
    /\ batch_mode
    /\ lut_table = ""
    /\ w_pc = "none"

\* C22: every file written by a batch save holds the processed image of
\* the source path whose base name it carries, also after an item of the
\* batch failed or the selection changed while the batch ran.
C22_SavedUnderOwnName ==
    \A i \in 1..Len(saved) :
        /\ saved[i].img.src \in Paths
        /\ saved[i].file = SaveName(saved[i].img.src)

\* C23: at most one worker thread runs at a time: none is superseded by a
\* new one while it is still running.
C23_AtMostOneWorker ==
    (IF isRunning THEN 1 ELSE 0) + Len(detached) <= 1

\* C27: lut_table and lut_size are both unset or both those of one
\* successfully parsed file; they change only to the table and size of one
\* successful parse; a load whose parse fails (it logs the error) leaves
\* both as they were and starts no thread.
C27_FailedLutLoadKeepsLut ==
    /\ [](\/ lut_table = "" /\ lut_size = 0
          \/ \E file \in LutFiles :
                /\ parse_cube_lut(file).ok
                /\ lut_table = parse_cube_lut(file).table
                /\ lut_size = parse_cube_lut(file).size)
    /\ [][(\/ lut_table' # lut_table
           \/ lut_size' # lut_size) =>
             \E file \in LutFiles :
                /\ parse_cube_lut(file).ok
                /\ lut_table' = parse_cube_lut(file).table
                /\ lut_size' = parse_cube_lut(file).size]_vars
    /\ [][lut_errors' # lut_errors =>
             UNCHANGED <<lut_table, lut_size, last_preview_strength, w_pc,
                         w_args, detached, processed_image>>]_vars

\* C27 witness: lutB was loaded and previewed, a load has failed, and lutB
\* is still the LUT.
C27_Witness ==
    /\ lut_table = "lutB"
    /\ lut_size = 3
    /\ lut_errors > 0
    /\ processed_image # None

\* C28: the source image is the decoded first element of image_paths, and
\* batch_mode is true exactly when image_paths has more than one element.
C28_SessionFollowsImagePaths ==
    /\ IF win_image_paths = <<>> THEN source_image = None
       ELSE source_image = RemoveAlpha(imdecode(win_image_paths[1]))
    /\ batch_mode <=> (Len(win_image_paths) > 1)

\* ===================================================================
\* Properties of one ImageProcessingThread run (SpecRun)
\* ===================================================================
\* C18: every run ends; while it runs nothing has been emitted; when it
\* has ended exactly one signal has been emitted: processing_error with no
\* image when a stage raised, processing_finished with the result
\* otherwise.
C18_ExactlyOneOutcome ==
    /\ <>(w_pc = "finished")
    /\ [](isRunning => signals = <<>>)
    /\ [](w_pc = "finished" =>
            /\ Len(signals) = 1
            /\ IF PipelineRaises(w_args.source_img)
               THEN /\ signals[1].sig = "processing_error"
                    /\ signals[1].img = None
               ELSE /\ signals[1].sig = "processing_finished"
                    /\ signals[1].img =
                           apply_lut_to_image(w_args.source_img, w_args.lut,
                                              w_args.strength,
                                              w_args.debanding, ximgproc))

\* C18 witness: a run whose sampling stage raised has ended with the error
\* as its only signal.
C18_Witness ==
    /\ w_pc = "finished"
    /\ PipelineRaises(w_args.source_img)
    /\ Len(signals) = 1
    /\ signals[1].sig = "processing_error"

\* ===================================================================
\* Properties of the stages on pixels (SpecPixel)
\* ===================================================================
\* C12 (as stated): a call with strength 0.0 returns the source image,
\* value for value, whatever the LUT and the mitigation mode.
C12_StrengthZeroIsIdentity ==
    (x_pc = "done" /\ x_strength = 0) => x_img = x_src

\* C12 (amended): a call with strength 0.0 and mode None returns the source
\* image, value for value, whatever the LUT; with another mode it returns
\* the source image dithered and then passed through the debanding filter.
C12_StrengthZeroNoMitigationIsIdentity ==
    (x_pc = "done" /\ x_strength = 0) =>
        IF Truthy(x_debanding)
        THEN x_img = DebandPx(apply_blue_noise_dither(
                          x_src, 2, generate_blue_noise_texture(TexSize, Seed),
                          TexSize), ximgproc)
        ELSE x_img = x_src

\* C12 witness: a call with strength 0.0, mode None and the inverting LUT
\* has returned, for an image on which the LUT changes values.
C12_Witness ==
    /\ x_pc = "done"
    /\ x_strength = 0
    /\ x_debanding = "none"
    /\ x_lut = "lutB"
    /\ SamplePx(x_src, x_lut) # x_src
    /\ x_img = x_src

\* C13: once the blend step has run, the image equals the transformed
\* image when strength is 1.0 and the source image when strength is 0.0,
\* and for every strength each channel value lies in 0..255 and is an
\* integer nearest to original * (1 - s) + transformed * s.
C13_BlendIsRoundedWeightedSum ==
    x_pc = "dither" =>
        LET transformed == SamplePx(x_src, x_lut) IN
        /\ x_strength = 100 => x_img = transformed
        /\ x_strength = 0 => x_img = x_src
        /\ DOMAIN x_img.px = DOMAIN x_src.px
        /\ \A i \in DOMAIN x_img.px :
              /\ x_img.px[i] \in 0..255
              /\ 2 * Abs(100 * x_img.px[i]
                         - (x_src.px[i] * (100 - x_strength)
                            + transformed.px[i] * x_strength)) <= 100

\* C13 witness: a blend with strength 0.3 has run on an image for which the
\* weighted sum of some channel is not an integer.
C13_Witness ==
    /\ x_pc = "dither"
    /\ x_strength = 30
    /\ \E i \in DOMAIN x_img.px :
          (x_src.px[i] * 70 + SamplePx(x_src, x_lut).px[i] * 30) % 100 # 0

\* C19: once the dither step of a run with a truthy mode has run, the image
\* has the height, width and channel count of the source image, one value
\* per channel of every pixel, and every value lies in 0..255, for images
\* narrower and taller than the noise tile alike.
C19_DitherKeepsShapeAndRange ==
    (x_pc = "deband" /\ Truthy(x_debanding)) =>
        /\ x_img.h = x_src.h
        /\ x_img.w = x_src.w
        /\ x_img.c = x_src.c
        /\ DOMAIN x_img.px = 1..(x_src.h * x_src.w * x_src.c)
        /\ \A i \in DOMAIN x_img.px : x_img.px[i] \in 0..255

\* C19 witness: the dither has run on an image taller than the tile and
\* narrower than it whose values before the dither were all 0 or 255.
C19_Witness ==
    /\ x_pc = "deband"
    /\ Truthy(x_debanding)
    /\ x_src.h > TexSize
    /\ x_src.w < TexSize
    /\ LET blended == BlendPx(x_src, SamplePx(x_src, x_lut), x_strength) IN
          /\ {blended.px[i] : i \in DOMAIN blended.px} = {0, 255}
          /\ x_img # blended

apply_lut_to_image_px(source_img, lut, strength, debanding, texture, xp) ==
    LET blended == BlendPx(source_img, SamplePx(source_img, lut), strength)
    IN  IF Truthy(debanding)
        THEN DebandPx(apply_blue_noise_dither(blended, 2, texture, TexSize),
                      xp)
        ELSE blended

C26_DeleteOnlyInsideCustom ==
    \A path \in removed : startswith(path, custom_lut_dir \o <<Sep>>)

====
